---- MODULE Spec2Model ----
(***************************************************************************)
(* A model of structz (anonymous structs for Rust) and of stringz, the     *)
(* typed-string crate it encodes field names with.                         *)
(*                                                                         *)
(*   - stringz: ident!/string! turn a text into a tuplez type made of      *)
(*     Character<C> markers, TypedString::value() reads the text back,     *)
(*     concatstr! joins such types.                                        *)
(*   - structz-macros: stru!/stru_t! parse a field list, reject duplicate  *)
(*     names and sort the fields by name; named_args rewrites a function.  *)
(*   - structz: HasField gives access to a field by its name type.         *)
(*                                                                         *)
(* A text is a sequence of characters, a character is its code point.      *)
(* A type is a record with a tag; a compile error is a record with         *)
(* ok |-> FALSE.                                                           *)
(***************************************************************************)
EXTENDS Integers, Sequences, FiniteSets, TLC

VARIABLES
    alias,      \* stringz: the type aliases declared so far (type + the text written)
    recovered,  \* stringz: the last TypedString::value() call and what it returned
    operands,   \* stringz: the texts of the arguments of a concatstr! call
    joined,     \* stringz: the type the concatstr! call expanded to
    call,       \* stru!/stru_t!: the macro call as written (macro, entries, trailing comma)
    parsed,     \* stru!/stru_t!: what the parser returned for it
    expansion,  \* stru!/stru_t!: the aggregate (type) it expanded to, or the compile error
    person,     \* field!: the binding of an aggregate, or Moved once it was moved out of
    op,         \* field!: the last access (its form, its field, what it evaluated to)
    latest,     \* field!: per field, the value it was built with or last written to it
    view,       \* as_ref!/as_mut!: the aggregate of references made of the binding
    fnItem,     \* named_args: the function as written (receiver, parameters)
    rewritten,  \* named_args: the function the attribute expanded to, or the compile error
    passed,     \* named_args: the entries of the stru! literal a caller passes
    bound       \* named_args: the locals the prepended let binds in that call

vars == <<alias, recovered, operands, joined, call, parsed, expansion, person, op, latest, view,
          fnItem, rewritten, passed, bound>>
stringVars == <<alias, recovered, operands, joined>>
macroVars == <<call, parsed, expansion>>
fieldVars == <<person, op, latest, view>>
argsVars == <<fnItem, rewritten, passed, bound>>

---------------------------------------------------------------------------
(* Bounds *)

MaxLen == 2         \* longest text handed to ident!/string!
MaxPartLen == 1     \* longest text of one argument of concatstr!
MaxAliases == 2     \* type aliases declared in one run
MaxArgs == 3        \* arguments of one concatstr! call
NumNames == 3       \* field names a program uses
MaxFields == 3      \* entries written in one stru!/stru_t! call
MaxParams == 2      \* parameters of the function under named_args
MaxPairs == 2       \* fields of the aggregate a program accesses
MaxN == 1           \* largest number a program writes into a field
MaxTokens == 4      \* tokens between the braces of a stru! call written freely

Alphabet == {97, 98}    \* 'a', 'b'

RECURSIVE TextsOfLen(_)
TextsOfLen(n) ==
    IF n = 0 THEN {<<>>}
    ELSE {<<c>> \o t : c \in Alphabet, t \in TextsOfLen(n - 1)}

Texts == UNION {TextsOfLen(n) : n \in 0..MaxLen}
IsIdentText(t) == t # <<>>      \* an identifier has at least one character
IdentTexts == Texts \ {<<>>}

\* The orders a list of n entries can be written in
Perms(n) == {p \in [1..n -> 1..n] : \A i, j \in 1..n : p[i] = p[j] => i = j}
Permute(entries, p) == [i \in 1..Len(entries) |-> entries[p[i]]]

---------------------------------------------------------------------------
(* tuplez: the heterogeneous list the types are made of *)

Unit == [tag |-> "Unit"]
Tuple(first, other) == [tag |-> "Tuple", first |-> first, other |-> other]

\* tuple_t![a, b, ...] is Tuple<a, Tuple<b, ... Unit>>
RECURSIVE tuple_t(_)
tuple_t(elems) ==
    IF elems = <<>> THEN Unit
    ELSE Tuple(Head(elems), tuple_t(Tail(elems)))

\* The elements of a tuple (type), first to last
RECURSIVE Elements(_)
Elements(T) == IF T.tag = "Unit" THEN <<>> ELSE <<T.first>> \o Elements(T.other)

\* <A as TupleLike>::JoinOutput<B>: B appended after the elements of A
RECURSIVE JoinOutput(_, _)
JoinOutput(A, B) ==
    IF A.tag = "Unit" THEN B
    ELSE Tuple(A.first, JoinOutput(A.other, B))

---------------------------------------------------------------------------
(* stringz *)

Character(c) == [tag |-> "Character", C |-> c]

\* The tokens the macros take: an identifier, and a string literal as it is
\* written in the source, between double quotes.
Quote == <<34>>
IdentToken(text) == [k |-> "ident", v |-> text]
LitStrToken(text) == [k |-> "litstr", v |-> Quote \o text \o Quote]

to_string(tok) == tok.v                             \* syn::Ident::to_string
LitStrValue(tok) == SubSeq(tok.v, 2, Len(tok.v) - 1)   \* syn::LitStr::value

\* name.chars().map(|ch| Character<ch>), collected into tuple_t![...]
CharsToType(name) == tuple_t([i \in 1..Len(name) |-> Character(name[i])])

ident(tok) == CharsToType(to_string(tok))

\* string! encoding the literal as written, quotes included, instead of its value
string_AsWritten(tok) == CharsToType(tok.v)

string(tok) == CharsToType(LitStrValue(tok))

\* Whether a type implements TypedString: the two impls are for
\* Tuple<Character<C>, Unit> and Tuple<Character<C>, Other: TypedString>.
RECURSIVE ImplTypedString(_)
ImplTypedString(T) ==
    /\ T.tag = "Tuple"
    /\ T.first.tag = "Character"
    /\ \/ T.other.tag = "Unit"
       \/ ImplTypedString(T.other)

RECURSIVE TypedStringValue(_)
TypedStringValue(T) ==
    IF T.other.tag = "Unit" THEN <<T.first.C>>          \* C.to_string()
    ELSE <<T.first.C>> \o TypedStringValue(T.other)     \* format!("{}{}", C, Other::value())

\* <T as TypedString>::value(): the text, or no impl for T
value(T) ==
    IF ImplTypedString(T) THEN [ok |-> TRUE, v |-> TypedStringValue(T)]
    ELSE [ok |-> FALSE, error |-> "the trait TypedString is not implemented"]

\* concatstr! joining the rest before its first argument
RECURSIVE concatstr_RestFirst(_)
concatstr_RestFirst(ts) ==
    IF Len(ts) = 1 THEN ts[1]
    ELSE JoinOutput(concatstr_RestFirst(Tail(ts)), ts[1])

RECURSIVE concatstr(_)
concatstr(ts) ==
    IF Len(ts) = 1 THEN ts[1]
    ELSE JoinOutput(ts[1], concatstr(Tail(ts)))

---------------------------------------------------------------------------
(* structz-macros: the parsers of stru! and stru_t!                        *)
(*                                                                         *)
(* The input of a macro is a sequence of tokens. A token is an identifier, *)
(* a literal expression, a comma or a colon. An identifier token is also   *)
(* an expression (a variable) and a type (a type name).                    *)

TyI32 == <<105, 51, 50>>                        \* "i32", a Copy type
TyString == <<83, 116, 114, 105, 110, 103>>     \* "String", not Copy
TypeNames == {TyI32, TyString}

Comma == [k |-> "comma"]
Colon == [k |-> "colon"]
LitToken(val) == [k |-> "lit", v |-> val]

\* The values a program writes in a struct literal
Values == {[ty |-> TyI32, n |-> 0], [ty |-> TyString, n |-> 0]}

\* The variable of that name in the scope of the macro call
ScopeValue(name) == [ty |-> TyI32, n |-> Len(name)]

IsExpr(tok) == tok.k \in {"ident", "lit"}
IsType(tok) == tok.k = "ident"

None == [some |-> FALSE]
Some(x) == [some |-> TRUE, x |-> x]

ParseOk(fields) == [ok |-> TRUE, fields |-> fields]
ParseError(msg, at) == [ok |-> FALSE, msg |-> msg, span |-> at]

\* A comparison of the lengths of the identifiers' texts only
IdentCmp_LengthOnly(a, b) ==
    IF Len(a) < Len(b) THEN -1 ELSE IF Len(a) > Len(b) THEN 1 ELSE 0

\* Ident::cmp: the order of the identifiers' texts, -1, 0 or 1
RECURSIVE IdentCmp(_, _)
IdentCmp(a, b) ==
    IF a = <<>> /\ b = <<>> THEN 0
    ELSE IF a = <<>> THEN -1
    ELSE IF b = <<>> THEN 1
    ELSE IF a[1] < b[1] THEN -1
    ELSE IF a[1] > b[1] THEN 1
    ELSE IdentCmp(Tail(a), Tail(b))

\* An insertion that keeps the list in descending order
RECURSIVE SortedInsert_Descending(_, _)
SortedInsert_Descending(sorted, x) ==
    IF sorted = <<>> THEN <<x>>
    ELSE IF IdentCmp(x.ident, Head(sorted).ident) > 0 THEN <<x>> \o sorted
    ELSE <<Head(sorted)>> \o SortedInsert_Descending(Tail(sorted), x)

\* A stable insertion of x into a sorted list: after every element not greater
RECURSIVE SortedInsert(_, _)
SortedInsert(sorted, x) ==
    IF sorted = <<>> THEN <<x>>
    ELSE IF IdentCmp(x.ident, Head(sorted).ident) < 0 THEN <<x>> \o sorted
    ELSE <<Head(sorted)>> \o SortedInsert(Tail(sorted), x)

\* A sort that leaves the fields as they were written
sort_by_Unsorted(fields) == fields

\* fields.sort_by(|x, y| x.0.cmp(&y.0)): a stable sort by field name
RECURSIVE sort_by(_)
sort_by(fields) ==
    IF fields = <<>> THEN <<>>
    ELSE SortedInsert(sort_by(SubSeq(fields, 1, Len(fields) - 1)), fields[Len(fields)])

\* A duplicate check that looks at the field pushed last only
AlreadyDefined_LastOnly(fields, id) ==
    fields # <<>> /\ fields[Len(fields)].ident = id

\* fields.iter().any(|(i, _)| i == &ident)
AlreadyDefined(fields, id) ==
    \E j \in 1..Len(fields) : fields[j].ident = id

\* AnonymousStruct::parse, from token i on, with the fields pushed so far
RECURSIVE AnonymousStructLoop(_, _, _)
AnonymousStructLoop(input, i, fields) ==
    IF i > Len(input) THEN ParseOk(sort_by(fields))
    ELSE IF input[i].k # "ident" THEN ParseError("expected identifier", i)
    ELSE IF AlreadyDefined(fields, input[i].v) THEN ParseError("field already defined", i)
    ELSE IF i + 1 > Len(input) THEN
        ParseOk(sort_by(Append(fields, [ident |-> input[i].v, expr |-> None])))
    ELSE IF input[i + 1].k = "comma" THEN
        AnonymousStructLoop(input, i + 2, Append(fields, [ident |-> input[i].v, expr |-> None]))
    ELSE IF input[i + 1].k = "colon" THEN
        IF i + 2 > Len(input) \/ ~IsExpr(input[i + 2]) THEN ParseError("expected expression", i + 2)
        ELSE IF i + 3 > Len(input) THEN
            ParseOk(sort_by(Append(fields, [ident |-> input[i].v, expr |-> Some(input[i + 2])])))
        ELSE IF input[i + 3].k # "comma" THEN ParseError("expected ,", i + 3)
        ELSE AnonymousStructLoop(input, i + 4,
                Append(fields, [ident |-> input[i].v, expr |-> Some(input[i + 2])]))
    ELSE \* neither peek matched: the loop goes round with the identifier not pushed
        AnonymousStructLoop(input, i + 1, fields)

AnonymousStructParse(input) == AnonymousStructLoop(input, 1, <<>>)

\* AnonymousStructType::parse, from token i on, with the fields pushed so far
RECURSIVE AnonymousStructTypeLoop(_, _, _)
AnonymousStructTypeLoop(input, i, fields) ==
    IF i > Len(input) THEN ParseOk(sort_by(fields))
    ELSE IF input[i].k # "ident" THEN ParseError("expected identifier", i)
    ELSE IF AlreadyDefined(fields, input[i].v) THEN ParseError("field already defined", i)
    ELSE IF i + 1 > Len(input) \/ input[i + 1].k # "colon" THEN ParseError("expected :", i + 1)
    ELSE IF i + 2 > Len(input) \/ ~IsType(input[i + 2]) THEN ParseError("expected type", i + 2)
    ELSE IF i + 3 > Len(input) THEN
        ParseOk(sort_by(Append(fields, [ident |-> input[i].v, ty |-> input[i + 2].v])))
    ELSE IF input[i + 3].k # "comma" THEN ParseError("expected ,", i + 3)
    ELSE AnonymousStructTypeLoop(input, i + 4,
            Append(fields, [ident |-> input[i].v, ty |-> input[i + 2].v]))

AnonymousStructTypeParse(input) == AnonymousStructTypeLoop(input, 1, <<>>)

\* tuple!(a, b, ...) is Tuple(a, Tuple(b, ... Unit))
RECURSIVE tuple(_)
tuple(elems) ==
    IF elems = <<>> THEN Unit
    ELSE Tuple(Head(elems), tuple(Tail(elems)))

\* A field of an aggregate: (<ident!(name)>::default(), value); the value of a
\* zero-sized name type is the type. In an aggregate type: (ident!(name), Type).
Pair(nameType, x) == [tag |-> "pair", name |-> nameType, x |-> x]

\* The value of an expression of a struct literal
Eval(tok) == IF tok.k = "lit" THEN tok.v ELSE ScopeValue(tok.v)

\* stru!: the aggregate the expansion evaluates to, or the compile error
stru(input) ==
    LET res == AnonymousStructParse(input) IN
    IF ~res.ok THEN res
    ELSE [ok |-> TRUE,
          value |-> tuple([i \in 1..Len(res.fields) |->
                LET f == res.fields[i] IN
                IF f.expr.some THEN Pair(ident(IdentToken(f.ident)), Eval(f.expr.x))
                ELSE Pair(ident(IdentToken(f.ident)), ScopeValue(f.ident))])]

\* stru_t!: the aggregate type of the expansion, or the compile error
stru_t(input) ==
    LET res == AnonymousStructTypeParse(input) IN
    IF ~res.ok THEN res
    ELSE [ok |-> TRUE,
          type |-> tuple_t([i \in 1..Len(res.fields) |->
                Pair(ident(IdentToken(res.fields[i].ident)), res.fields[i].ty)])]

\* The type of an aggregate value: each value replaced by its type
RECURSIVE TypeOf(_)
TypeOf(agg) ==
    IF agg.tag = "Unit" THEN Unit
    ELSE Tuple(Pair(agg.first.name, agg.first.x.ty), TypeOf(agg.other))

---------------------------------------------------------------------------
(* structz-macros: named_args                                              *)
(*                                                                         *)
(* A function item is its receiver (if it has one) and its typed           *)
(* parameters; the pattern of a parameter is an identifier, with or        *)
(* without mut, or another pattern.                                        *)

MutToken == [k |-> "mut"]

\* #ident: #ty of the quote: a PatIdent prints its mut, then its identifier
PatTypeTokens(arg) ==
    (IF arg.mutability THEN <<MutToken>> ELSE <<>>)
    \o <<IdentToken(arg.ident), Colon, IdentToken(arg.ty)>>

\* #(#idents: #tys),*
RECURSIVE StructTypeTokens(_)
StructTypeTokens(args) ==
    IF args = <<>> THEN <<>>
    ELSE IF Len(args) = 1 THEN PatTypeTokens(args[1])
    ELSE PatTypeTokens(args[1]) \o <<Comma>> \o StructTypeTokens(Tail(args))

Receiver == [kind |-> "receiver"]
Typed(pat, ty) == [kind |-> "typed", pat |-> pat, ty |-> ty]

\* The expansion; unpack is the prepended statement
\*   let tuple_pat!((_, a), (_, b), ...): tuple_t!((ident!(a), A), ...) = structz_s;
NamedArgsOutput(receiver, args, patOrder) ==
    [ok |-> TRUE,
     inputs |-> (IF receiver THEN <<Receiver>> ELSE <<>>)
                \o <<Typed("structz_s", [macro |-> "stru_t", input |-> StructTypeTokens(args)])>>,
     unpack |-> [pat |-> [i \in 1..Len(patOrder) |-> patOrder[i].ident],
                 ty |-> tuple_t([i \in 1..Len(args) |->
                            Pair(ident(IdentToken(args[i].ident)), args[i].ty)])]]

NotIdentifier == [ok |-> FALSE, msg |-> "arguments must be an identifier or receiver", span |-> 0]

\* A named_args whose let pattern lists the parameters in the order written
named_args_PatternAsWritten(item) ==
    IF \E i \in 1..Len(item.args) : item.args[i].pat # "ident" THEN NotIdentifier
    ELSE NamedArgsOutput(item.receiver, sort_by(item.args), item.args)

\* A named_args that looks at the pattern of the first parameter only
named_args_FirstOnly(item) ==
    IF item.args # <<>> /\ item.args[1].pat # "ident" THEN NotIdentifier
    ELSE NamedArgsOutput(item.receiver, sort_by(item.args), sort_by(item.args))

named_args(item) ==
    IF \E i \in 1..Len(item.args) : item.args[i].pat # "ident" THEN NotIdentifier
    ELSE NamedArgsOutput(item.receiver, sort_by(item.args), sort_by(item.args))

\* A call of the rewritten function with an aggregate: the parameter type
\* stru_t! { ... } is expanded, the argument and the annotation of the let are
\* checked against it, and the pattern binds position by position.
CallRewritten(fn, agg) ==
    LET param == fn.inputs[Len(fn.inputs)]
        paramTy == stru_t(param.ty.input)
    IN  IF ~paramTy.ok THEN [called |-> TRUE, ok |-> FALSE, error |-> paramTy.msg]
        ELSE IF TypeOf(agg) # paramTy.type \/ fn.unpack.ty # paramTy.type
            THEN [called |-> TRUE, ok |-> FALSE, error |-> "mismatched types"]
        ELSE [called |-> TRUE, ok |-> TRUE,
              locals |-> [f \in {fn.unpack.pat[i] : i \in 1..Len(fn.unpack.pat)} |->
                            Elements(agg)[CHOOSE i \in 1..Len(fn.unpack.pat) : fn.unpack.pat[i] = f].x]]

---------------------------------------------------------------------------
(* structz: HasField, implemented for every Tuple<First, Other> that can   *)
(* be searched for an element of type (Field, T).                          *)

Infer == "_"    \* a type left to inference

\* Whether an element of an aggregate has the type (Field, T)
HasType(elem, Field, T) ==
    /\ elem.name = Field
    /\ T = Infer \/ elem.x.ty = T

\* The search witnesses R for which Self: Search<(Field, T), R> holds: 0 for
\* the first element (Complete), r + 1 for witness r of the rest (Unused<R>).
RECURSIVE SearchWitnesses(_, _, _)
SearchWitnesses(self, Field, T) ==
    IF self.tag = "Unit" THEN {}
    ELSE (IF HasType(self.first, Field, T) THEN {0} ELSE {})
         \cup {r + 1 : r \in SearchWitnesses(self.other, Field, T)}

\* Search::get_ref / Search::get_mut: the element the witness points at
RECURSIVE SearchGet(_, _)
SearchGet(self, R) ==
    IF R = 0 THEN self.first ELSE SearchGet(self.other, R - 1)

\* Search::take: the element the witness points at, and the rest
RECURSIVE SearchTake(_, _)
SearchTake(self, R) ==
    IF R = 0 THEN <<self.first, self.other>>
    ELSE LET t == SearchTake(self.other, R - 1) IN <<t[1], Tuple(self.first, t[2])>>

\* A store that writes v into every element up to the one the witness points at
RECURSIVE Store_Through(_, _, _)
Store_Through(self, R, v) ==
    IF R = 0 THEN Tuple([self.first EXCEPT !.x = v], self.other)
    ELSE Tuple([self.first EXCEPT !.x = v], Store_Through(self.other, R - 1, v))

\* The aggregate with v stored in the value of the element the witness points at
RECURSIVE Store(_, _, _)
Store(self, R, v) ==
    IF R = 0 THEN Tuple([self.first EXCEPT !.x = v], self.other)
    ELSE Tuple(self.first, Store(self.other, R - 1, v))

\* An access reading the first element, whatever the witness
get_field_First(self, R) == self.first.x

\* HasField::get_field: &Search::get_ref(self).1
get_field(self, R) == SearchGet(self, R).x

\* A mutable access giving the place of the first element, whatever the witness
get_field_mut_First(self, R) == 0

\* HasField::get_field_mut: &mut Search::get_mut(self).1, as the place it refers to
get_field_mut(self, R) == R

\* A take_field giving the name half of the pair
take_field_Name(self, R) == SearchTake(self, R)[1].name

\* HasField::take_field: Search::take(self).0 .1
take_field(self, R) == SearchTake(self, R)[1].x

\* The type of a reference: "&T" or "&mut T"
Amp == <<38>>
AmpMut == <<38, 109, 117, 116, 32>>
RefTy(mutable, ty) == (IF mutable THEN AmpMut ELSE Amp) \o ty
IsMutRef(ty) == Len(ty) >= Len(AmpMut) /\ SubSeq(ty, 1, Len(AmpMut)) = AmpMut
IsSharedRef(ty) == ty # <<>> /\ ty[1] = Amp[1] /\ ~IsMutRef(ty)

\* A type is Copy when all its parts are: the name types always are, i32 and
\* shared references are, String and mutable references are not
IsCopy(ty) == ty = TyI32 \/ IsSharedRef(ty)
RECURSIVE AllCopy(_)
AllCopy(self) ==
    self.tag = "Unit" \/ (IsCopy(self.first.x.ty) /\ AllCopy(self.other))

Moved == [tag |-> "Moved"]

AccessOk(kind, f, r) == [kind |-> kind, field |-> f, ok |-> TRUE, r |-> r]
AccessError(kind, f, error) == [kind |-> kind, field |-> f, ok |-> FALSE, error |-> error]

\* An inference that falls back to the first element when nothing matches
Resolve_Fallback(self, Field, T) ==
    LET W == SearchWitnesses(self, Field, T) IN
    IF W = {} THEN [ok |-> self.tag = "Tuple", R |-> 0, error |-> "HasField is not implemented"]
    ELSE [ok |-> TRUE, R |-> CHOOSE r \in W : TRUE]

\* What inference makes of the call: the one witness, or the compile error
Resolve(self, Field, T) ==
    LET W == SearchWitnesses(self, Field, T) IN
    IF W = {} THEN [ok |-> FALSE, error |-> "HasField is not implemented"]
    ELSE IF Cardinality(W) > 1 THEN [ok |-> FALSE, error |-> "type annotations needed"]
    ELSE [ok |-> TRUE, R |-> CHOOSE r \in W : TRUE]

\* A use of the binding that does not compile: it was moved out of
UseOfMoved == "use of moved value"

\* field!(&s.f): s.__get_field_helper::<ident!(f), _, _>()
FieldRefMacro(s, f) ==
    IF s = Moved THEN AccessError("get", f, UseOfMoved)
    ELSE LET w == Resolve(s, ident(IdentToken(f)), Infer) IN
         IF ~w.ok THEN AccessError("get", f, w.error)
         ELSE AccessOk("get", f, get_field(s, w.R))

\* *field!(&mut s.f) = n: s.__get_field_mut_helper::<ident!(f), _, _>(), written
\* through. The result is the access and the binding after it.
FieldMutMacro(s, f, n) ==
    IF s = Moved THEN <<AccessError("get_mut", f, UseOfMoved), s>>
    ELSE LET w == Resolve(s, ident(IdentToken(f)), Infer) IN
         IF ~w.ok THEN <<AccessError("get_mut", f, w.error), s>>
         ELSE LET place == get_field_mut(s, w.R)
                  v == [ty |-> SearchGet(s, place).x.ty, n |-> n]
              IN <<AccessOk("get_mut", f, v), Store(s, place, v)>>

\* field!(s.f): HasField::<ident!(f), _, _>::take_field(s). The result is the
\* access and the binding after it: s is passed by value, so it is moved out
\* of unless its type is Copy.
FieldTakeMacro(s, f) ==
    IF s = Moved THEN <<AccessError("take", f, UseOfMoved), s>>
    ELSE LET w == Resolve(s, ident(IdentToken(f)), Infer) IN
         IF ~w.ok THEN <<AccessError("take", f, w.error), s>>
         ELSE <<AccessOk("take", f, take_field(s, w.R)),
                IF AllCopy(s) THEN s ELSE Moved>>

---------------------------------------------------------------------------
(* structz: as_ref! and as_mut!                                            *)
(*                                                                         *)
(* A reference is a value whose type is &T or &mut T and which refers to a *)
(* place of the aggregate it was taken from: the value half of the pair at *)
(* that position, counted from 0 as the search witnesses are.              *)

Reference(mutable, ty, place) == [ty |-> RefTy(mutable, ty), place |-> place]

\* The value a reference into s refers to
Deref(s, r) == SearchGet(s, r.place).x

\* s.as_ref().foreach(|x: &(T, U)| (x.0, &x.1)) and its as_mut() counterpart:
\* pair by pair from position place on, the name kept and the value referred to
RECURSIVE ForeachPair(_, _, _)
ForeachPair(self, mutable, place) ==
    IF self.tag = "Unit" THEN Unit
    ELSE Tuple(Pair(self.first.name, Reference(mutable, self.first.x.ty, place)),
               ForeachPair(self.other, mutable, place + 1))

as_ref(s) == ForeachPair(s, FALSE, 0)

\* An as_mut! all of whose references refer to the first field
RECURSIVE as_mut_FirstPlace(_)
as_mut_FirstPlace(s) ==
    IF s.tag = "Unit" THEN Unit
    ELSE Tuple(Pair(s.first.name, Reference(TRUE, s.first.x.ty, 0)), as_mut_FirstPlace(s.other))

as_mut(s) == ForeachPair(s, TRUE, 0)

---------------------------------------------------------------------------
(* Programs over stringz.                                                  *)
(*                                                                         *)
(* SpecString: type aliases are declared with ident! and string!, and      *)
(* value() is called on them. alias[i].text is the text the alias was      *)
(* written from.                                                           *)
(*                                                                         *)
(* SpecConcat: operands are the texts of the arguments of one concatstr!   *)
(* call; each argument is written with ident! or string!, and the first g  *)
(* arguments may be wrapped in an inner concatstr! call.                   *)

RECURSIVE JoinTexts(_)
JoinTexts(ts) == IF ts = <<>> THEN <<>> ELSE Head(ts) \o JoinTexts(Tail(ts))

NoAlias == <<>>
NoCall == [of |-> 0]
NoOperands == <<>>
NoJoin == [done |-> FALSE]

NoMacro == [macro |-> "none"]
NoResult == [ok |-> FALSE, msg |-> "none", span |-> 0]

StringIdle == alias = NoAlias /\ recovered = NoCall
ConcatIdle == operands = NoOperands /\ joined = NoJoin
MacroIdle == call = NoMacro /\ parsed = NoResult /\ expansion = NoResult
NoView == [kind |-> "none"]
FieldIdle == person = Unit /\ op = [kind |-> "none"] /\ latest = <<>> /\ view = NoView
NoFn == [receiver |-> FALSE, args |-> <<>>]
NotCalled == [called |-> FALSE]
ArgsIdle == fnItem = NoFn /\ rewritten = NoResult /\ passed = <<>> /\ bound = NotCalled

InitString ==
    /\ alias = NoAlias
    /\ recovered = NoCall
    /\ ConcatIdle
    /\ MacroIdle
    /\ FieldIdle
    /\ ArgsIdle

DeclareIdent ==
    /\ Len(alias) < MaxAliases
    /\ \E t \in IdentTexts :
        alias' = Append(alias, [via |-> "ident", text |-> t, ty |-> ident(IdentToken(t))])
    /\ UNCHANGED <<recovered, operands, joined, macroVars, fieldVars, argsVars>>

DeclareString ==
    /\ Len(alias) < MaxAliases
    /\ \E t \in Texts :
        alias' = Append(alias, [via |-> "string", text |-> t, ty |-> string(LitStrToken(t))])
    /\ UNCHANGED <<recovered, operands, joined, macroVars, fieldVars, argsVars>>

CallValue ==
    /\ \E i \in 1..Len(alias) :
        recovered' = [of |-> i, r |-> value(alias[i].ty)]
    /\ UNCHANGED <<alias, operands, joined, macroVars, fieldVars, argsVars>>

NextString == DeclareIdent \/ DeclareString \/ CallValue

SpecString == InitString /\ [][NextString]_vars

\* The type an argument of concatstr! stands for
OperandType(via, t) ==
    IF via = "ident" THEN ident(IdentToken(t)) ELSE string(LitStrToken(t))

\* concatstr!(concatstr!(a1, ..., ag), a(g+1), ..., an), or the flat call for g = 0
GroupedConcat(ts, g) ==
    IF g = 0 THEN concatstr(ts)
    ELSE concatstr(<<concatstr(SubSeq(ts, 1, g))>> \o SubSeq(ts, g + 1, Len(ts)))

InitConcat ==
    /\ operands \in UNION {[1..n -> UNION {TextsOfLen(m) : m \in 0..MaxPartLen}] : n \in 1..MaxArgs}
    /\ joined = NoJoin
    /\ StringIdle
    /\ MacroIdle
    /\ FieldIdle
    /\ ArgsIdle

Concatstr ==
    /\ ~joined.done
    /\ \E vias \in [1..Len(operands) -> {"ident", "string"}], g \in 0..Len(operands) :
        /\ \A i \in 1..Len(operands) : vias[i] = "ident" => IsIdentText(operands[i])
        /\ joined' = [done |-> TRUE, g |-> g,
                      ty |-> GroupedConcat(
                                [i \in 1..Len(operands) |-> OperandType(vias[i], operands[i])], g)]
    /\ UNCHANGED <<operands, alias, recovered, macroVars, fieldVars, argsVars>>

NextConcat == Concatstr

SpecConcat == InitConcat /\ [][NextConcat]_vars

---------------------------------------------------------------------------
(* A program with one stru! or stru_t! call, which the compiler expands:   *)
(* the call is written as a list of entries (a field name, and an expression, a type or        *)
(* nothing after it), with or without a trailing comma.                    *)

\* The field names of the programs: "y", "x", "xy", "z", "xx", "yx"
NamePool == << <<121>>, <<120>>, <<120, 121>>, <<122>>, <<120, 120>>, <<121, 120>> >>
FieldNames == {NamePool[i] : i \in 1..NumNames}

StruEntries == [name : FieldNames, rhs : {None} \cup {Some(LitToken(v)) : v \in Values}]
StruTEntries == [name : FieldNames, rhs : {Some(IdentToken(t)) : t \in TypeNames}]
EntryLists(E) == UNION {[1..n -> E] : n \in 0..MaxFields}

EntryTokens(en) ==
    IF en.rhs.some THEN <<IdentToken(en.name), Colon, en.rhs.x>>
    ELSE <<IdentToken(en.name)>>

RECURSIVE Render(_, _)
Render(entries, trailing) ==
    IF entries = <<>> THEN <<>>
    ELSE IF Len(entries) = 1 THEN
        EntryTokens(entries[1]) \o (IF trailing THEN <<Comma>> ELSE <<>>)
    ELSE EntryTokens(entries[1]) \o <<Comma>> \o Render(Tail(entries), trailing)

\* The calls of a macro with entries of E; a trailing comma needs an entry
WrittenCalls(macro, E) ==
    {[macro |-> macro, entries |-> es, trailing |-> tr] :
        es \in EntryLists(E), tr \in BOOLEAN}

InitMacro ==
    /\ call \in WrittenCalls("stru", StruEntries) \cup WrittenCalls("stru_t", StruTEntries)
    /\ call.trailing => call.entries # <<>>
    /\ parsed = NoResult
    /\ expansion = NoResult
    /\ StringIdle
    /\ ConcatIdle
    /\ FieldIdle
    /\ ArgsIdle

Expanded == expansion # NoResult

ExpandStru ==
    /\ call.macro = "stru" /\ ~Expanded
    /\ parsed' = AnonymousStructParse(Render(call.entries, call.trailing))
    /\ expansion' = stru(Render(call.entries, call.trailing))
    /\ UNCHANGED <<call, stringVars, fieldVars, argsVars>>

ExpandStruT ==
    /\ call.macro = "stru_t" /\ ~Expanded
    /\ parsed' = AnonymousStructTypeParse(Render(call.entries, call.trailing))
    /\ expansion' = stru_t(Render(call.entries, call.trailing))
    /\ UNCHANGED <<call, stringVars, fieldVars, argsVars>>

NextMacro == ExpandStru \/ ExpandStruT

SpecMacro == InitMacro /\ [][NextMacro]_vars

---------------------------------------------------------------------------
(* A program with one stru! call whose input is any sequence of tokens,    *)
(* well-formed or not: the compiler hands the tokens to the parser.        *)

Tokens ==
    {IdentToken(name) : name \in FieldNames} \cup {LitToken(v) : v \in Values}
    \cup {Comma, Colon}

TokenStreams(max) == UNION {[1..n -> Tokens] : n \in 0..max}

InitTokens ==
    /\ call \in {[macro |-> "stru", input |-> ts] : ts \in TokenStreams(MaxTokens)}
    /\ parsed = NoResult
    /\ expansion = NoResult
    /\ StringIdle
    /\ ConcatIdle
    /\ FieldIdle
    /\ ArgsIdle

ParseStru ==
    /\ ~Expanded
    /\ parsed' = AnonymousStructParse(call.input)
    /\ expansion' = stru(call.input)
    /\ UNCHANGED <<call, stringVars, fieldVars, argsVars>>

NextTokens == ParseStru

SpecTokens == InitTokens /\ [][NextTokens]_vars

---------------------------------------------------------------------------
(* A program accessing the fields of one aggregate through field!. The     *)
(* aggregate is any tuple of pairs with distinct field names, in any       *)
(* order; its values are the values of literals.                           *)

NamesIn(entries) == {entries[i].name : i \in 1..Len(entries)}

Aggregate(entries) ==
    tuple([i \in 1..Len(entries) |-> Pair(ident(IdentToken(entries[i].name)), entries[i].v)])

AggregateEntries(max) ==
    {es \in UNION {[1..n -> [name : FieldNames, v : Values]] : n \in 0..max} :
        \A i, j \in 1..Len(es) : es[i].name = es[j].name => i = j}

InitField ==
    /\ \E es \in AggregateEntries(MaxPairs) :
        /\ person = Aggregate(es)
        /\ latest = [f \in NamesIn(es) |-> es[CHOOSE i \in 1..Len(es) : es[i].name = f].v]
    /\ op = [kind |-> "none"]
    /\ view = NoView
    /\ StringIdle
    /\ ConcatIdle
    /\ MacroIdle
    /\ ArgsIdle

FieldRef ==
    /\ \E f \in FieldNames : op' = FieldRefMacro(person, f)
    /\ UNCHANGED <<person, latest, view, stringVars, macroVars, argsVars>>

FieldMut ==
    /\ \E f \in FieldNames, n \in 0..MaxN :
        LET res == FieldMutMacro(person, f, n) IN
        /\ op' = res[1]
        /\ person' = res[2]
        /\ latest' = IF res[1].ok THEN [latest EXCEPT ![f] = res[1].r] ELSE latest
    /\ UNCHANGED <<view, stringVars, macroVars, argsVars>>

FieldTake ==
    /\ \E f \in FieldNames :
        LET res == FieldTakeMacro(person, f) IN
        /\ op' = res[1]
        /\ person' = res[2]
    /\ UNCHANGED <<latest, view, stringVars, macroVars, argsVars>>

NextField == FieldRef \/ FieldMut \/ FieldTake

SpecField == InitField /\ [][NextField]_vars

---------------------------------------------------------------------------
(* A program that makes views of one aggregate with as_ref! and as_mut!,   *)
(* reads and writes through the fields of the view with field!(view.f),    *)
(* and reads the aggregate itself with field!(&person.f). view.agg is the  *)
(* binding of the view, Moved once it was moved out of. A mutable view     *)
(* borrows the aggregate exclusively, so a read of the aggregate is the    *)
(* end of it.                                                              *)

InitView ==
    /\ \E es \in AggregateEntries(MaxPairs) :
        /\ person = Aggregate(es)
        /\ latest = [f \in NamesIn(es) |-> es[CHOOSE i \in 1..Len(es) : es[i].name = f].v]
    /\ op = [kind |-> "none"]
    /\ view = NoView
    /\ StringIdle
    /\ ConcatIdle
    /\ MacroIdle
    /\ ArgsIdle

\* let ref_person = as_ref!(person);
AsRef ==
    /\ view = NoView
    /\ view' = [kind |-> "ref", agg |-> as_ref(person)]
    /\ UNCHANGED <<person, op, latest, stringVars, macroVars, argsVars>>

\* let mut_person = as_mut!(person);
AsMut ==
    /\ view = NoView
    /\ view' = [kind |-> "mut", agg |-> as_mut(person)]
    /\ UNCHANGED <<person, op, latest, stringVars, macroVars, argsVars>>

\* *field!(ref_person.f): the reference is taken out of the view and read through
ViewRead ==
    /\ view.kind = "ref"
    /\ \E f \in FieldNames :
        LET res == FieldTakeMacro(view.agg, f) IN
        /\ op' = IF res[1].ok THEN AccessOk("view_read", f, Deref(person, res[1].r))
                 ELSE AccessError("view_read", f, res[1].error)
        /\ view' = [view EXCEPT !.agg = res[2]]
    /\ UNCHANGED <<person, latest, stringVars, macroVars, argsVars>>

\* *field!(mut_person.f) = n: the reference is taken out of the view and written through
ViewWrite ==
    /\ view.kind = "mut"
    /\ \E f \in FieldNames, n \in 0..MaxN :
        LET res == FieldTakeMacro(view.agg, f) IN
        IF res[1].ok THEN
            LET v == [ty |-> Deref(person, res[1].r).ty, n |-> n] IN
            /\ op' = AccessOk("view_write", f, v)
            /\ person' = Store(person, res[1].r.place, v)
            /\ latest' = [latest EXCEPT ![f] = v]
            /\ view' = [view EXCEPT !.agg = res[2]]
        ELSE
            /\ op' = AccessError("view_write", f, res[1].error)
            /\ UNCHANGED <<person, latest, view>>
    /\ UNCHANGED <<stringVars, macroVars, argsVars>>

\* field!(&person.f), after which a mutable view is no longer live
PersonGet ==
    /\ \E f \in FieldNames : op' = FieldRefMacro(person, f)
    /\ view' = IF view.kind = "mut" THEN NoView ELSE view
    /\ UNCHANGED <<person, latest, stringVars, macroVars, argsVars>>

\* The view goes out of scope
DropView ==
    /\ view # NoView
    /\ view' = NoView
    /\ UNCHANGED <<person, op, latest, stringVars, macroVars, argsVars>>

NextView == AsRef \/ AsMut \/ ViewRead \/ ViewWrite \/ PersonGet \/ DropView

SpecView == InitView /\ [][NextView]_vars

---------------------------------------------------------------------------
(* A program with one function under #[named_args] and one call of it. The *)
(* parameters have distinct names; the caller writes a stru! literal with  *)
(* the names in any order, each with a value of its own, and in one        *)
(* variant gives the first entry a value of another type.                  *)

FnArgs ==
    [pat : {"ident"}, ident : FieldNames, mutability : BOOLEAN, ty : TypeNames]
    \cup [pat : {"other"}, ident : FieldNames, mutability : {FALSE}, ty : TypeNames]

FnItems(max) ==
    [receiver : BOOLEAN,
     args : {as \in UNION {[1..n -> FnArgs] : n \in 0..max} :
                \A i, j \in 1..Len(as) : as[i].ident = as[j].ident => i = j}]

NameIndex(name) == CHOOSE i \in 1..Len(NamePool) : NamePool[i] = name
OtherType(ty) == IF ty = TyI32 THEN TyString ELSE TyI32

\* The literal the caller writes: the parameters in the order p
PassedEntries(args, p, wrong) ==
    [i \in 1..Len(args) |->
        [name |-> args[p[i]].ident,
         rhs |-> Some(LitToken([ty |-> IF wrong /\ i = 1 THEN OtherType(args[p[i]].ty)
                                       ELSE args[p[i]].ty,
                                n |-> NameIndex(args[p[i]].ident)]))]]

InitArgs ==
    /\ fnItem \in FnItems(MaxParams)
    /\ rewritten = NoResult
    /\ passed = <<>>
    /\ bound = NotCalled
    /\ StringIdle
    /\ ConcatIdle
    /\ MacroIdle
    /\ FieldIdle

NamedArgs ==
    /\ rewritten = NoResult
    /\ rewritten' = named_args(fnItem)
    /\ UNCHANGED <<fnItem, passed, bound, stringVars, macroVars, fieldVars>>

CallFn ==
    /\ rewritten.ok
    /\ ~bound.called
    /\ \E p \in Perms(Len(fnItem.args)), wrong \in BOOLEAN :
        /\ wrong => fnItem.args # <<>>
        /\ passed' = PassedEntries(fnItem.args, p, wrong)
        /\ bound' = CallRewritten(rewritten, stru(Render(passed', FALSE)).value)
    /\ UNCHANGED <<fnItem, rewritten, stringVars, macroVars, fieldVars>>

NextArgs == NamedArgs \/ CallFn

SpecArgs == InitArgs /\ [][NextArgs]_vars

---------------------------------------------------------------------------
(* Claims about stringz *)

IsProperPrefix(a, b) == Len(a) < Len(b) /\ SubSeq(b, 1, Len(a)) = a

\* C3: an encoded name is the sequence of the Character markers of its text, one
\* per character and in order, and two encoded names are the same type exactly
\* when their texts are the same character sequence, whether they were written
\* with ident! or with string!.
C3_EncodeInjective ==
    /\ \A i \in 1..Len(alias) :
        Elements(alias[i].ty) = [k \in 1..Len(alias[i].text) |-> Character(alias[i].text[k])]
    /\ \A i, j \in 1..Len(alias) :
        (alias[i].ty = alias[j].ty) <=> (alias[i].text = alias[j].text)

\* C3 witness: an ident! name and a string! name, one a proper prefix of the other
C3_Witness ==
    \E i, j \in 1..Len(alias) :
        /\ alias[i].via = "ident" /\ alias[j].via = "string"
        /\ IsProperPrefix(alias[i].text, alias[j].text)
        /\ alias[i].ty # alias[j].ty

\* C4: value() of the type a text was encoded to returns that text.
C4_RoundTrip ==
    recovered # NoCall =>
        /\ recovered.r.ok
        /\ recovered.r.v = alias[recovered.of].text

\* C5: concatstr! of encoded names is the encoded name of the texts joined in
\* argument order, for one argument or more and however the joins are grouped.
C5_ConcatIsEncodeOfJoin ==
    joined.done => joined.ty = string(LitStrToken(JoinTexts(operands)))

\* C5 witness: three different non-empty arguments, the first two grouped
C5_Witness ==
    /\ joined.done
    /\ Len(operands) = 3
    /\ joined.g = 2
    /\ \A i \in 1..3 : operands[i] # <<>>
    /\ operands[1] # operands[2] /\ operands[2] # operands[3]

---------------------------------------------------------------------------
(* Claims about stru! and stru_t! *)

HasDuplicate(entries) ==
    \E i, j \in 1..Len(entries) : i < j /\ entries[i].name = entries[j].name

\* The same entries with every literal changed to another value of its type
OtherValue(v) == [v EXCEPT !.n = v.n + 1]
Revalued(entries) ==
    [i \in 1..Len(entries) |->
        IF entries[i].rhs.some /\ entries[i].rhs.x.k = "lit"
        THEN [entries[i] EXCEPT !.rhs = Some(LitToken(OtherValue(entries[i].rhs.x.v)))]
        ELSE entries[i]]

ParseOf(macro, input) ==
    IF macro = "stru" THEN AnonymousStructParse(input) ELSE AnonymousStructTypeParse(input)
ExpansionOf(macro, input) ==
    IF macro = "stru" THEN stru(input) ELSE stru_t(input)

\* C1: a non-empty list of entries with distinct names parses to the same field
\* sequence in whatever order it is written, so the expansion is the same
\* aggregate (stru!) or the same type (stru_t!); and a struct literal with other
\* values of the same types has the same type.
C1_OrderIndependent ==
    (Expanded /\ call.entries # <<>> /\ ~HasDuplicate(call.entries)) =>
        /\ parsed.ok /\ expansion.ok
        /\ \A p \in Perms(Len(call.entries)) :
            LET input == Render(Permute(call.entries, p), call.trailing) IN
            /\ ParseOf(call.macro, input) = parsed
            /\ ExpansionOf(call.macro, input) = expansion
            /\ call.macro = "stru" =>
                TypeOf(stru(Render(Revalued(Permute(call.entries, p)), call.trailing)).value)
                    = TypeOf(expansion.value)

\* C1 witness: three fields written out of order, one of them captured
C1_Witness ==
    /\ Expanded /\ call.macro = "stru"
    /\ Len(call.entries) = 3 /\ ~HasDuplicate(call.entries)
    /\ \E i \in 1..2 : IdentCmp(call.entries[i].name, call.entries[i + 1].name) > 0
    /\ \E i \in 1..3 : ~call.entries[i].rhs.some
    /\ expansion.ok

\* The index, in the input, of the identifier of entry k
RECURSIVE TokenIndex(_, _)
TokenIndex(entries, k) ==
    IF k = 1 THEN 1
    ELSE TokenIndex(entries, k - 1) + Len(EntryTokens(entries[k - 1])) + 1

\* The first entry whose name an earlier entry has
FirstRepeated(entries) ==
    CHOOSE k \in 1..Len(entries) :
        /\ \E j \in 1..(k - 1) : entries[j].name = entries[k].name
        /\ \A m \in 1..(k - 1) : ~\E j \in 1..(m - 1) : entries[j].name = entries[m].name

\* C2: a stru! or stru_t! call that names a field twice, at any two positions,
\* is the error "field already defined" at the repeated identifier, and gives
\* no field list and no aggregate.
C2_DuplicateRejected ==
    (Expanded /\ HasDuplicate(call.entries)) =>
        /\ parsed = ParseError("field already defined",
                               TokenIndex(call.entries, FirstRepeated(call.entries)))
        /\ expansion = parsed

\* C2 witness: the first and the third entry have the same name, the second another
C2_Witness ==
    /\ Expanded /\ Len(call.entries) = 3
    /\ call.entries[1].name = call.entries[3].name
    /\ call.entries[1].name # call.entries[2].name
    /\ ~expansion.ok

---------------------------------------------------------------------------
(* Claims about field access *)

Accessed == op.kind # "none"
NameType(f) == ident(IdentToken(f))

\* C6: get on a field of the aggregate succeeds and returns the value of the
\* pair that has this name, at whatever position the pair is.
C6_GetReturnsNamedValue ==
    (op.kind = "get" /\ person # Moved /\ op.field \in DOMAIN latest) =>
        /\ op.ok
        /\ \E i \in 1..Len(Elements(person)) :
            /\ Elements(person)[i].name = NameType(op.field)
            /\ Elements(person)[i].x = op.r

\* C6 witness: get returned the value of the second pair, which the first has not
C6_Witness ==
    /\ op.kind = "get" /\ op.ok /\ person # Moved
    /\ Len(Elements(person)) = 2
    /\ Elements(person)[2].name = NameType(op.field)
    /\ Elements(person)[1].x # op.r

\* C7: get returns the value last written to the field through get_mut, or the
\* value the field was built with if nothing was written to it.
C7_GetReturnsLastWritten ==
    (op.kind = "get" /\ op.ok) => op.r = latest[op.field]

\* C7 witness: get returned a written value (aggregates are built with 0) of the
\* second field, and the first field still has the value it was built with
C7_Witness ==
    /\ op.kind = "get" /\ op.ok /\ person # Moved
    /\ op.r.n = 1
    /\ Len(Elements(person)) = 2
    /\ Elements(person)[2].name = NameType(op.field)
    /\ Elements(person)[1].x.n = 0

\* Whether the aggregate the binding was built as is Copy
BuiltCopy == \A f \in DOMAIN latest : IsCopy(latest[f].ty)

\* C8 as claimed: take returns the value of the field, written values included,
\* and the binding is moved out of.
C8_TakeConsumes ==
    (op.kind = "take" /\ op.ok) =>
        /\ op.r = latest[op.field]
        /\ person = Moved

\* C8 amended: take returns the value of the field, written values included. If
\* a field of the aggregate is not Copy the binding is moved out of, and every
\* get, get_mut and take after that is a compile error; if all fields are Copy
\* the aggregate is Copy and the binding stays as it was.
C8_TakeConsumesUnlessCopy ==
    /\ []((op.kind = "take" /\ op.ok) =>
            /\ op.r = latest[op.field]
            /\ (person = Moved <=> ~BuiltCopy))
    /\ [][(op'.kind = "take" /\ op'.ok /\ BuiltCopy) => person' = person]_vars
    /\ [][person = Moved => (person' = Moved /\ ~op'.ok /\ op'.error = UseOfMoved)]_vars

\* C8 witness: a take of a written field moved the binding, the other field is Copy
C8_Witness ==
    /\ op.kind = "take" /\ op.ok /\ person = Moved
    /\ op.r.n = 1
    /\ \E f \in DOMAIN latest : IsCopy(latest[f].ty)

\* C9: an access to a field name that no pair of the aggregate has is a compile
\* error, the missing impl of HasField unless the binding was moved out of: it
\* gives no value, and not the value of another field.
C9_MissingFieldRejected ==
    (Accessed /\ op.field \notin DOMAIN latest) =>
        /\ ~op.ok
        /\ person # Moved => op.error = "HasField is not implemented"

\* C9 witness: a field that an aggregate of two other fields does not have
C9_Witness ==
    /\ Accessed /\ ~op.ok /\ person # Moved
    /\ Len(Elements(person)) = 2
    /\ op.field \notin DOMAIN latest
    /\ op.kind = "take"

---------------------------------------------------------------------------
(* Claims about named_args *)

PlainParams(item) ==
    \A i \in 1..Len(item.args) : item.args[i].pat = "ident" /\ ~item.args[i].mutability

DeclaredType(item, name) ==
    item.args[CHOOSE i \in 1..Len(item.args) : item.args[i].ident = name].ty

WellTyped(item, entries) ==
    \A i \in 1..Len(entries) : entries[i].rhs.x.v.ty = DeclaredType(item, entries[i].name)

\* C10: for parameters that are plain identifiers, named_args gives a function
\* that takes the receiver first, if there is one, and then exactly one parameter,
\* an aggregate whose fields are the parameters' names and types in the order of
\* the names; its first statement binds every parameter name, and in a call with
\* a literal written in any order each name is bound to the value written for it.
C10_NamedArgsBindsByName ==
    (rewritten # NoResult /\ PlainParams(fnItem)) =>
        LET n == Len(fnItem.args)
            last == rewritten.inputs[Len(rewritten.inputs)]
            paramTy == stru_t(last.ty.input)
        IN
        /\ rewritten.ok
        /\ Len(rewritten.inputs) = (IF fnItem.receiver THEN 2 ELSE 1)
        /\ fnItem.receiver => rewritten.inputs[1] = Receiver
        /\ last.kind = "typed"
        /\ paramTy.ok
        /\ Len(Elements(paramTy.type)) = n
        /\ \E q \in Perms(n) :
            /\ \A i \in 1..n :
                Elements(paramTy.type)[i]
                    = Pair(NameType(fnItem.args[q[i]].ident), fnItem.args[q[i]].ty)
            /\ \A i \in 1..(n - 1) :
                IdentCmp(fnItem.args[q[i]].ident, fnItem.args[q[i + 1]].ident) < 0
        /\ {rewritten.unpack.pat[i] : i \in 1..Len(rewritten.unpack.pat)}
                = {fnItem.args[i].ident : i \in 1..n}
        /\ Len(rewritten.unpack.pat) = n
        /\ (bound.called /\ WellTyped(fnItem, passed)) =>
            /\ bound.ok
            /\ \A i \in 1..n : bound.locals[passed[i].name] = passed[i].rhs.x.v

\* C10 witness: a method of two parameters of the same type, written against
\* the order of the names and called with a literal in the order of the names
C10_Witness ==
    /\ bound.called /\ bound.ok
    /\ fnItem.receiver
    /\ Len(fnItem.args) = 2
    /\ IdentCmp(fnItem.args[1].ident, fnItem.args[2].ident) > 0
    /\ IdentCmp(passed[1].name, passed[2].name) < 0
    /\ fnItem.args[1].ty = fnItem.args[2].ty

C17_ArtefactsAgree ==
    (rewritten # NoResult /\ rewritten.ok) =>
        LET last == rewritten.inputs[Len(rewritten.inputs)]
            paramTy == stru_t(last.ty.input)
            pat == rewritten.unpack.pat
        IN
        /\ paramTy.ok
        /\ paramTy.type = rewritten.unpack.ty
        /\ Len(pat) = Len(fnItem.args)
        /\ Elements(rewritten.unpack.ty)
            = [i \in 1..Len(pat) |-> Pair(NameType(pat[i]), DeclaredType(fnItem, pat[i]))]

---------------------------------------------------------------------------
(* Claims about the field sequence the parsers return *)

\* The entries of a call whose positions are in T, in the order written
RECURSIVE Restrict(_, _)
Restrict(entries, T) ==
    IF entries = <<>> THEN <<>>
    ELSE Restrict(SubSeq(entries, 1, Len(entries) - 1), T)
         \o (IF Len(entries) \in T THEN <<entries[Len(entries)]>> ELSE <<>>)

\* Whether a is b with some of its elements left out
RECURSIVE IsSubsequence(_, _)
IsSubsequence(a, b) ==
    IF a = <<>> THEN TRUE
    ELSE IF b = <<>> THEN FALSE
    ELSE IF Head(a) = Head(b) THEN IsSubsequence(Tail(a), Tail(b))
    ELSE IsSubsequence(a, Tail(b))

\* What an expansion is made of: the pairs of the aggregate or of the type
ExpansionElements(macro, res) ==
    IF macro = "stru" THEN Elements(res.value) ELSE Elements(res.type)

\* C12: for a call with distinct field names, the field sequence of every subset
\* of its entries (the whole set included), written in any order, is the field
\* sequence of the call with the other fields left out and the order kept; and
\* so are the pairs of the expansions.
C12_SubsetIsSubsequence ==
    (Expanded /\ parsed.ok) =>
        \A T \in SUBSET (1..Len(call.entries)) :
            \A p \in Perms(Cardinality(T)) :
                LET input == Render(Permute(Restrict(call.entries, T), p), FALSE)
                    sub == ParseOf(call.macro, input)
                IN
                /\ sub.ok
                /\ Len(sub.fields) = Cardinality(T)
                /\ IsSubsequence(sub.fields, parsed.fields)
                /\ IsSubsequence(ExpansionElements(call.macro, ExpansionOf(call.macro, input)),
                                 ExpansionElements(call.macro, expansion))

\* C12 witness: a type of three fields written in descending order of the names
C12_Witness ==
    /\ Expanded /\ call.macro = "stru_t" /\ expansion.ok
    /\ Len(call.entries) = 3
    /\ IdentCmp(call.entries[1].name, call.entries[2].name) > 0
    /\ IdentCmp(call.entries[2].name, call.entries[3].name) > 0

\* The field an entry stands for: its name with its expression, None for the
\* shorthand (stru!), or its name with its type (stru_t!)
FieldOf(macro, en) ==
    IF macro = "stru" THEN [ident |-> en.name, expr |-> en.rhs]
    ELSE [ident |-> en.name, ty |-> en.rhs.x.v]

\* C14: a successful parse returns the entries of the input, each name with its
\* own expression or type and None for a shorthand entry, reordered so that the
\* names are strictly ascending; the shorthand expands to the variable of that
\* name; and the same input with the trailing comma added or removed gives the
\* same result.
C14_SortedPermutation ==
    (Expanded /\ parsed.ok) =>
        LET n == Len(call.entries) IN
        /\ Len(parsed.fields) = n
        /\ \A i \in 1..(n - 1) :
            IdentCmp(parsed.fields[i].ident, parsed.fields[i + 1].ident) < 0
        /\ \E q \in Perms(n) :
            \A i \in 1..n : parsed.fields[i] = FieldOf(call.macro, call.entries[q[i]])
        /\ call.macro = "stru" =>
            \A i \in 1..n :
                ~parsed.fields[i].expr.some =>
                    Elements(expansion.value)[i].x = ScopeValue(parsed.fields[i].ident)
        /\ call.entries # <<>> =>
            /\ ParseOf(call.macro, Render(call.entries, ~call.trailing)) = parsed
            /\ ExpansionOf(call.macro, Render(call.entries, ~call.trailing)) = expansion

\* C14 witness: a literal with a trailing comma whose second entry, a shorthand,
\* has the smallest name
C14_Witness ==
    /\ Expanded /\ call.macro = "stru" /\ parsed.ok /\ call.trailing
    /\ Len(call.entries) = 3
    /\ ~call.entries[2].rhs.some /\ call.entries[1].rhs.some /\ call.entries[3].rhs.some
    /\ parsed.fields[1].ident = call.entries[2].name

---------------------------------------------------------------------------
(* Claims about malformed input *)

\* Whether the tokens are a comma-separated list of field: expression or field
\* entries, with or without a trailing comma
RECURSIVE IsEntryList(_)
IsEntryList(ts) ==
    IF ts = <<>> THEN TRUE
    ELSE IF ts[1].k # "ident" THEN FALSE
    ELSE IF Len(ts) = 1 THEN TRUE
    ELSE IF ts[2].k = "comma" THEN IsEntryList(SubSeq(ts, 3, Len(ts)))
    ELSE IF ts[2].k # "colon" THEN FALSE
    ELSE IF Len(ts) = 2 \/ ~IsExpr(ts[3]) THEN FALSE
    ELSE IF Len(ts) = 3 THEN TRUE
    ELSE ts[4].k = "comma" /\ IsEntryList(SubSeq(ts, 5, Len(ts)))

\* The positions of the identifiers read as field names: those not after a colon
FieldPositions(ts) ==
    {i \in 1..Len(ts) : ts[i].k = "ident" /\ (i = 1 \/ ts[i - 1].k # "colon")}

\* C15: the parser of stru! returns Ok only for a well-formed entry list, and
\* then every identifier it read as a field name is a field of the result.
C15_MalformedRejected ==
    (Expanded /\ parsed.ok) =>
        /\ IsEntryList(call.input)
        /\ \A i \in FieldPositions(call.input) :
            \E j \in 1..Len(parsed.fields) : parsed.fields[j].ident = call.input[i].v

---------------------------------------------------------------------------
(* Claims about what an access leaves alone *)

\* C16: a get, successful or not, leaves the binding as it was; a write through
\* get_mut on a field leaves the number of pairs, every name and its position,
\* and the value of every other field as they were, and a get_mut that does not
\* compile writes nothing.
C16_AccessFrame ==
    /\ [][op'.kind = "get" => (person' = person /\ latest' = latest)]_vars
    /\ [][(op'.kind = "get_mut" /\ ~op'.ok) => person' = person]_vars
    /\ [][(op'.kind = "get_mut" /\ op'.ok) =>
            LET before == Elements(person)
                after == Elements(person')
            IN  /\ Len(after) = Len(before)
                /\ \A i \in 1..Len(before) :
                    /\ after[i].name = before[i].name
                    /\ before[i].name # NameType(op'.field) => after[i] = before[i]
                    /\ before[i].name = NameType(op'.field) => after[i].x = op'.r]_vars

\* C16 witness: the second of two fields was written, the first is a String
\* that still has the value it was built with
C16_Witness ==
    /\ op.kind = "get_mut" /\ op.ok /\ person # Moved
    /\ op.r.n = 1
    /\ Len(Elements(person)) = 2
    /\ Elements(person)[2].name = NameType(op.field)
    /\ Elements(person)[1].x = [ty |-> TyString, n |-> 0]

---------------------------------------------------------------------------
(* Claims about as_ref! and as_mut! *)

\* C13: a view made with as_ref! or as_mut! has the field names of the aggregate
\* in the same order, and the value of each field is a reference, shared or
\* mutable, to the value of the same field of the aggregate; what is read through
\* a field of the view, and what a later get on the aggregate returns, is the
\* value last written to that field, through a view included; and the aggregate
\* is never moved out of, so get on any of its fields keeps succeeding (a view
\* of mutable references is itself moved out of by the first field taken).
C13_ViewRefersToFields ==
    /\ person # Moved
    /\ (view # NoView /\ view.agg # Moved) =>
        /\ Len(Elements(view.agg)) = Len(Elements(person))
        /\ \A i \in 1..Len(Elements(person)) :
            LET p == Elements(person)[i]
                v == Elements(view.agg)[i]
            IN  /\ v.name = p.name
                /\ v.x = Reference(view.kind = "mut", p.x.ty, i - 1)
                /\ Deref(person, v.x) = p.x
                /\ p.x = latest[CHOOSE f \in DOMAIN latest : NameType(f) = p.name]
    /\ (op.kind = "get" /\ op.field \in DOMAIN latest) => op.ok
    /\ (op.kind \in {"get", "view_read", "view_write"} /\ op.ok) => op.r = latest[op.field]

\* C13 witness: the second field was written through a mutable view, and a get
\* on the aggregate returned the written value while a later shared view is live
C13_Witness ==
    /\ op.kind = "get" /\ op.ok
    /\ op.r.n = 1
    /\ view.kind = "ref" /\ view.agg # Moved
    /\ Len(Elements(person)) = 2
    /\ Elements(person)[2].name = NameType(op.field)
    /\ Elements(person)[1].x.n = 0

====
